---- MODULE Spec2Model ----
(***************************************************************************)
(* Tiered memory consolidation and contextual retrieval of NUCLEUS:        *)
(*   services/memory-enhancement/main.py  (MemoryConsolidator,             *)
(*       ContextualRetriever, get_memory_stats)                            *)
(*   jobs/med-to-deep/main.py             (MEDtoDEEPEngine)                *)
(*                                                                         *)
(* The record store is a shared PostgreSQL database.  Every request or job *)
(* execution opens its own SQLAlchemy session (models/base.py, autoflush   *)
(* off): reads see committed rows, db.add/db.delete only queue work in the *)
(* session, db.commit() applies the queue in one transaction, and a        *)
(* session closed without commit leaves the store untouched.  Service      *)
(* instances and job executions are separate OS processes, so the steps of *)
(* two passes interleave freely between their store accesses.              *)
(*                                                                         *)
(* Time is counted in days.  The services name the record time created_at; *)
(* the model keeps that name.  Scores are in hundredths (0.7 is 70); the   *)
(* one inexact double the evaluator produces, 0.4 + 0.2 =                  *)
(* 0.6000000000000001, is 61.                                              *)
(***************************************************************************)
EXTENDS Integers, Sequences, FiniteSets, TLC

VARIABLES
    now,      \* datetime.utcnow(), in days
    ingested, \* history: the rows ingestion wrote to memory_tier1
    tier1,    \* committed rows of memory.memory_tier1
    tier2,    \* committed rows of memory.memory_tier2
    tier3,    \* committed rows of memory.memory_tier3
    convs,    \* committed rows of memory.conversations
    summaries,   \* committed rows of memory.summaries
    embeddings,  \* committed rows of memory.embeddings
    proc,     \* per request: the running pass, its session and its result
    ret,      \* the /retrieve request: its inputs, locals and result
    coh,      \* the /coherence request: its inputs, locals and report
    stats     \* the /stats request: its input, locals and result

tiers == <<ingested, tier1, tier2, tier3>>
deep == <<convs, summaries, embeddings>>
vars == <<now, ingested, tier1, tier2, tier3, convs, summaries, embeddings,
          proc, ret, coh, stats>>

----------------------------------------------------------------------------
(* Bounds of the model *)

MaxRec == 2       \* tier-1 rows in the initial store
MaxConv == 3      \* conversations in the initial store
StartDay == 16    \* the clock starts here
ClockDays == 1    \* and advances at most this many days

Procs == {"p1", "p2"}
KnownEntities == {"e1", "e2"}
ReqEntities == KnownEntities \cup {"e0"}      \* "e0": a UUID of no entity
DaysInputs == {1, 2}                           \* request.days_threshold

----------------------------------------------------------------------------
(* Rows *)

NoId == <<"none", 0>>

\* summary, embedding: the column holds a value.  No constructor call of the
\* services passes either, so a row the services build has neither.
Row(id, e, t, kw, c, src) ==
    [id |-> id, entity |-> e, type |-> t, kw |-> kw, created |-> c, src |-> src,
     summary |-> FALSE, embedding |-> FALSE]

\* A row written with both columns set, by a writer outside these services.
Summarized(r) == [r EXCEPT !.summary = TRUE, !.embedding = TRUE]

\* The rows ingestion can have written to tier 1.  kw: the JSON text of
\* interaction_data contains "important" or "critical".
Profile(e, t, kw, c) == [entity |-> e, type |-> t, kw |-> kw, created |-> c]

\* The initial stores are built from these: every score the evaluator can
\* give to an old row of e1, a recent row of e1, and rows of e2.
Catalogue ==
    << Profile("e1", "decision", FALSE, 14),        \* 0.8
       Profile("e1", "decision", TRUE, 14),         \* 1.0
       Profile("e1", "task_execution", FALSE, 14),  \* 0.6
       Profile("e1", "conversation", TRUE, 14),     \* 0.7
       Profile("e1", "note", FALSE, 14),            \* 0.5, no table entry
       Profile("e1", "event", FALSE, 14),           \* 0.4
       Profile("e1", "event", TRUE, 14),            \* 0.6000000000000001
       Profile("e1", "action", TRUE, 15),           \* 0.7, recent
       Profile("e2", "decision", FALSE, 14),
       Profile("e2", "event", FALSE, 15) >>

Tier1Row(n, pr) ==
    Row(<<"ingest", n>>, pr.entity, pr.type, pr.kw, pr.created, NoId)

----------------------------------------------------------------------------
(* MemoryConsolidator._evaluate_importance *)

\* The weight table read without a default: a type it does not list has no
\* weight (-1).
ImportanceWeightNoDefault(t) ==
    CASE t = "decision"       -> 80
      [] t = "task_execution" -> 60
      [] t = "conversation"   -> 50
      [] t = "event"          -> 40
      [] t = "action"         -> 50
      [] OTHER                -> -1

ImportanceWeight(t) ==
    CASE t = "decision"       -> 80
      [] t = "task_execution" -> 60
      [] t = "conversation"   -> 50
      [] t = "event"          -> 40
      [] t = "action"         -> 50
      [] OTHER                -> 50

\* base_importance += 0.2 in IEEE doubles
AddKeywordBonus(b) ==
    CASE b = 40 -> 61
      [] OTHER  -> b + 20

Min(a, b) == IF a < b THEN a ELSE b

EvaluateImportance(m) ==
    Min(100, IF m.kw THEN AddKeywordBonus(ImportanceWeight(m.type))
                     ELSE ImportanceWeight(m.type))

HighThreshold == 70
LowThreshold == 40

\* The branches taken with >= in place of >.
RouteInclusive(s) ==
    IF s >= HighThreshold THEN "tier2"
    ELSE IF s >= LowThreshold THEN "tier3"
    ELSE "discard"

\* The branch MemoryConsolidator.consolidate takes for a score.
Route(s) ==
    IF s > HighThreshold THEN "tier2"
    ELSE IF s > LowThreshold THEN "tier3"
    ELSE "discard"

----------------------------------------------------------------------------
(* Process state *)

NoRow == Row(NoId, "", "", FALSE, 0, NoId)
NoRes == [status |-> "none", processed |-> 0, moved2 |-> 0, moved3 |-> 0,
          archived |-> 0, summaries |-> 0]

\* op "mc": old_memories (old), the rows still to loop over (todo), the row
\* of the current iteration (cur), the session's queued inserts and deletes
\* and the three counters.  A failed pass keeps where it failed (at) and the
\* row then in flight; importance is the score of the last row evaluated.
\* op "m2d": conversations (sel), the periods still
\* to loop over (gtodo), the session's summaries, embeddings and archive
\* marks, and consolidated_count.
IdleProc ==
    [pc |-> "idle", op |-> "none", entity |-> "", cutoff |-> 0,
     old |-> {}, todo |-> {}, cur |-> NoRow, importance |-> 0,
     adds2 |-> {}, adds3 |-> {}, dels |-> {},
     moved2 |-> 0, moved3 |-> 0, archived |-> 0,
     sel |-> {}, gtodo |-> {}, ngroups |-> 0,
     sums |-> {}, embs |-> {}, marks |-> {}, count |-> 0,
     at |-> "", res |-> NoRes]

\* A process serves one request (an endpoint call or a job execution) with
\* a session of its own.
Resting(p) == proc[p].pc = "idle"

\* Loop order of old_memories: the query has no ORDER BY; the pass result
\* does not depend on the order, the model takes ascending id.
NextMemory(S) == CHOOSE m \in S : \A o \in S : m.id[2] <= o.id[2]

----------------------------------------------------------------------------
(* MemoryConsolidator.consolidate *)

\* The selection with created_at <= cutoff_date.
OldMemoriesInclusive(e, cutoff) ==
    {m \in tier1 : m.entity = e /\ m.created <= cutoff}

\* The selection without the entity filter.
OldMemoriesAnyEntity(e, cutoff) ==
    {m \in tier1 : m.created < cutoff}

OldMemories(e, cutoff) ==
    {m \in tier1 : m.entity = e /\ m.created < cutoff}

MCStart(p, e, days) ==
    /\ Resting(p)
    /\ LET cutoff == now - days
           sel == OldMemories(e, cutoff)
       IN proc' = [proc EXCEPT ![p] =
            IF sel = {}
            THEN [IdleProc EXCEPT !.pc = "done", !.op = "mc", !.entity = e,
                    !.cutoff = cutoff,
                    !.res = [NoRes EXCEPT !.status = "no_consolidation_needed"]]
            ELSE [IdleProc EXCEPT !.pc = "route", !.op = "mc", !.entity = e,
                    !.cutoff = cutoff, !.old = sel, !.todo = sel]]
    /\ UNCHANGED <<now, tiers, deep, ret, coh, stats>>

\* MCRoute with the successor row committed as soon as it is added.
MCRouteCommitsAdd(p) ==
    /\ proc[p].pc = "route"
    /\ LET m == NextMemory(proc[p].todo)
           r == Route(EvaluateImportance(m))
           succ == Row(<<p, m.id[2]>>, proc[p].entity, m.type, m.kw,
                       m.created, m.id)
       IN /\ proc' = [proc EXCEPT ![p] =
               [@ EXCEPT !.pc = "del", !.cur = m,
                  !.importance = EvaluateImportance(m),
                  !.moved2 = IF r = "tier2" THEN @ + 1 ELSE @,
                  !.moved3 = IF r = "tier3" THEN @ + 1 ELSE @,
                  !.archived = IF r = "discard" THEN @ + 1 ELSE @]]
          /\ tier2' = IF r = "tier2" THEN tier2 \cup {succ} ELSE tier2
          /\ tier3' = IF r = "tier3" THEN tier3 \cup {succ} ELSE tier3
    /\ UNCHANGED <<now, ingested, tier1, deep, ret, coh, stats>>

\* One loop iteration up to db.add of the successor row.
MCRoute(p) ==
    /\ proc[p].pc = "route"
    /\ LET m == NextMemory(proc[p].todo)
           r == Route(EvaluateImportance(m))
           succ == Row(<<p, m.id[2]>>, proc[p].entity, m.type, m.kw,
                       m.created, m.id)
       IN proc' = [proc EXCEPT ![p] =
            [@ EXCEPT !.pc = "del", !.cur = m,
               !.importance = EvaluateImportance(m),
               !.adds2 = IF r = "tier2" THEN @ \cup {succ} ELSE @,
               !.adds3 = IF r = "tier3" THEN @ \cup {succ} ELSE @,
               !.moved2 = IF r = "tier2" THEN @ + 1 ELSE @,
               !.moved3 = IF r = "tier3" THEN @ + 1 ELSE @,
               !.archived = IF r = "discard" THEN @ + 1 ELSE @]]
    /\ UNCHANGED <<now, tiers, deep, ret, coh, stats>>

\* db.delete(memory), the end of the iteration.
MCDelete(p) ==
    /\ proc[p].pc = "del"
    /\ LET rest == proc[p].todo \ {proc[p].cur}
       IN proc' = [proc EXCEPT ![p] =
            [@ EXCEPT !.pc = IF rest = {} THEN "commit" ELSE "route",
               !.dels = @ \cup {proc[p].cur}, !.todo = rest, !.cur = NoRow]]
    /\ UNCHANGED <<now, tiers, deep, ret, coh, stats>>

\* A commit that writes the successor rows back into tier 1.
MCCommitDemotes(p) ==
    /\ proc[p].pc = "commit"
    /\ tier1' = (tier1 \ proc[p].dels) \cup proc[p].adds2 \cup proc[p].adds3
    /\ UNCHANGED <<ingested, tier2, tier3, ret, coh, stats>>
    /\ proc' = [proc EXCEPT ![p] =
         [IdleProc EXCEPT !.pc = "done", !.op = "mc",
            !.entity = proc[p].entity, !.cutoff = proc[p].cutoff,
            !.res = [status |-> "consolidation_complete",
                     processed |-> Cardinality(proc[p].old),
                     moved2 |-> proc[p].moved2, moved3 |-> proc[p].moved3,
                     archived |-> proc[p].archived, summaries |-> 0]]]
    /\ UNCHANGED <<now, deep>>

\* db.commit(): the queued inserts and deletes in one transaction.  A
\* DELETE of a row another transaction already removed matches no row and
\* is not an error.
MCCommit(p) ==
    /\ proc[p].pc = "commit"
    /\ tier2' = tier2 \cup proc[p].adds2
    /\ tier3' = tier3 \cup proc[p].adds3
    /\ tier1' = tier1 \ proc[p].dels
    /\ UNCHANGED <<ingested, ret, coh, stats>>
    /\ proc' = [proc EXCEPT ![p] =
         [IdleProc EXCEPT !.pc = "done", !.op = "mc",
            !.entity = proc[p].entity, !.cutoff = proc[p].cutoff,
            !.res = [status |-> "consolidation_complete",
                     processed |-> Cardinality(proc[p].old),
                     moved2 |-> proc[p].moved2, moved3 |-> proc[p].moved3,
                     archived |-> proc[p].archived, summaries |-> 0]]]
    /\ UNCHANGED <<now, deep>>

\* An exception anywhere before the commit returns (a storage error, a
\* transaction abort, an injected fault): the endpoint answers 500 and
\* get_db closes the session, which drops everything queued.
MCFail(p) ==
    /\ proc[p].op = "mc"
    /\ proc[p].pc \in {"route", "del", "commit"}
    /\ proc' = [proc EXCEPT ![p] =
         [IdleProc EXCEPT !.pc = "failed", !.op = "mc",
            !.at = proc[p].pc, !.cur = proc[p].cur,
            !.res = [NoRes EXCEPT !.status = "error"]]]
    /\ UNCHANGED <<now, tiers, deep, ret, coh, stats>>

----------------------------------------------------------------------------
(* MEDtoDEEPEngine.consolidate *)

ConsolidationThresholdDays == 7

\* .limit(100) of the conversation query, scaled to the model's stores.
BatchLimit == 2

Conv(n, e, c) ==
    [id |-> <<"ingest", n>>, entity |-> e, created |-> c,
     archived |-> FALSE, summary_id |-> NoId]

ConvProfile(e, c) == [entity |-> e, created |-> c]

\* Days are counted from a Monday of the current year: days 1 and 6 fall in
\* one week, 8 and 9 in the next; day 9 passes the threshold only after the
\* threshold once the clock has advanced.
ConvCatalogue ==
    << ConvProfile("e1", 1), ConvProfile("e1", 6), ConvProfile("e1", 8),
       ConvProfile("e1", 9), ConvProfile("e2", 1) >>

\* created_at.strftime("%Y-W%W")
WeekKey(t) == t \div 7

\* The conversations the query can return: unarchived rows of the entity
\* older than the threshold, the oldest first, at most BatchLimit of them
\* (rows of equal created_at in either order).
\* Eligible without the filter on meta_data->>'archived'.
EligibleIgnoringArchived(e, threshold) ==
    {c \in convs : c.entity = e /\ c.created < threshold}

Eligible(e, threshold) ==
    {c \in convs : c.entity = e /\ c.created < threshold /\ ~c.archived}

Selections(e, threshold) ==
    LET el == Eligible(e, threshold)
        n == Min(BatchLimit, Cardinality(el))
    IN {S \in SUBSET el :
          /\ Cardinality(S) = n
          /\ \A c \in S, u \in el \ S : c.created <= u.created}

\* Groups keyed by the day, created_at.strftime("%Y-%m-%d").
GroupByDay(S) == [k \in {c.created : c \in S} |->
                     {c \in S : c.created = k}]

\* _group_by_period
GroupByPeriod(S) == [k \in {WeekKey(c.created) : c \in S} |->
                        {c \in S : WeekKey(c.created) = k}]

MinOf(S) == CHOOSE x \in S : \A y \in S : x <= y
MaxOf(S) == CHOOSE x \in S : \A y \in S : x >= y

\* uuid.uuid4 of a new summary: an id no committed or queued summary has.
FreshSummaryId(p) ==
    LET used == {s.id : s \in summaries \cup proc[p].sums}
    IN <<p, MinOf({k \in 1..(Cardinality(used) + 1) : <<p, k>> \notin used})>>

M2DStart(p, e) ==
    /\ Resting(p)
    /\ IF e \notin KnownEntities
       THEN proc' = [proc EXCEPT ![p] =
              [IdleProc EXCEPT !.pc = "failed", !.op = "m2d",
                 !.res = [NoRes EXCEPT !.status = "entity_not_found"]]]
       ELSE LET threshold == now - ConsolidationThresholdDays
            IN \E S \in Selections(e, threshold) :
                 proc' = [proc EXCEPT ![p] =
                   IF S = {}
                   THEN [IdleProc EXCEPT !.pc = "done", !.op = "m2d",
                           !.entity = e, !.cutoff = threshold,
                           !.res = [NoRes EXCEPT !.status = "success"]]
                   ELSE [IdleProc EXCEPT !.pc = "group", !.op = "m2d",
                           !.entity = e, !.cutoff = threshold, !.sel = S,
                           !.gtodo = DOMAIN GroupByPeriod(S),
                           !.ngroups = Cardinality(DOMAIN GroupByPeriod(S))]]
    /\ UNCHANGED <<now, tiers, deep, ret, coh, stats>>

\* conversations[:20] of _summarize_conversations, scaled as the batch
\* limit is (100 to BatchLimit).
SummaryInputLimit == 1

\* The conversations whose text the summary prompt can hold: the first
\* SummaryInputLimit of the group in query order (rows of equal created_at
\* in either order).
SummaryInputs(group) ==
    {I \in SUBSET group :
       /\ Cardinality(I) = Min(SummaryInputLimit, Cardinality(group))
       /\ \A c \in I, u \in group \ I : c.created <= u.created}

\* One iteration of the loop over the periods: summary, embedding, the
\* Summary and Embedding rows and the archive marks, all queued in the
\* session.  covers and input are history: the conversations of the period
\* and those the summary text was generated from.
M2DGroup(p) ==
    /\ proc[p].pc = "group"
    /\ \E inp \in SummaryInputs(GroupByPeriod(proc[p].sel)[MinOf(proc[p].gtodo)]) :
       LET period == MinOf(proc[p].gtodo)
           group == GroupByPeriod(proc[p].sel)[period]
           sid == FreshSummaryId(p)
           summary == [id |-> sid, entity |-> proc[p].entity,
                       period |-> period,
                       conversation_count |-> Cardinality(group),
                       start |-> MinOf({c.created : c \in group}),
                       end |-> MaxOf({c.created : c \in group}),
                       covers |-> {c.id : c \in group},
                       input |-> {c.id : c \in inp}]
           embedding == [entity |-> proc[p].entity, source_id |-> sid,
                         period |-> period]
           rest == proc[p].gtodo \ {period}
       IN proc' = [proc EXCEPT ![p] =
            [@ EXCEPT !.pc = IF rest = {} THEN "m2dcommit" ELSE "group",
               !.gtodo = rest,
               !.sums = @ \cup {summary},
               !.embs = @ \cup {embedding},
               !.marks = @ \cup {[conv |-> c.id, summary_id |-> sid] :
                                    c \in group},
               !.count = @ + Cardinality(group)]]
    /\ UNCHANGED <<now, tiers, deep, ret, coh, stats>>

M2DFailed(p, why) ==
    [IdleProc EXCEPT !.pc = "failed", !.op = "m2d", !.at = proc[p].pc,
       !.res = [NoRes EXCEPT !.status = why]]

\* llm.complete or llm.embed raises for the current period: no handler
\* inside the loop, the exception leaves consolidate and db.close() drops
\* the session.
M2DJudgmentFail(p) ==
    /\ proc[p].pc = "group"
    /\ proc' = [proc EXCEPT ![p] = M2DFailed(p, "judgment_error")]
    /\ UNCHANGED <<now, tiers, deep, ret, coh, stats>>

\* db.flush() or db.commit() raises.
M2DStorageFail(p) ==
    /\ proc[p].pc \in {"group", "m2dcommit"}
    /\ proc' = [proc EXCEPT ![p] = M2DFailed(p, "storage_error")]
    /\ UNCHANGED <<now, tiers, deep, ret, coh, stats>>

\* The run is cancelled while it awaits the judgment of a period (the task
\* is cancelled, the job is stopped): the exception leaves consolidate,
\* db.close() drops the session with the periods already summarized.  The
\* record keeps those summaries and the count reached.
M2DCancel(p) ==
    /\ proc[p].pc = "group"
    /\ proc' = [proc EXCEPT ![p] =
         [M2DFailed(p, "cancelled") EXCEPT !.entity = proc[p].entity,
            !.cutoff = proc[p].cutoff, !.sums = proc[p].sums,
            !.count = proc[p].count]]
    /\ UNCHANGED <<now, tiers, deep, ret, coh, stats>>

\* db.commit(): the inserts and the UPDATEs of the marked conversations, by
\* primary key, in one transaction.
Marked(c, marks) ==
    IF \E m \in marks : m.conv = c.id
    THEN [c EXCEPT !.archived = TRUE,
            !.summary_id = (CHOOSE m \in marks : m.conv = c.id).summary_id]
    ELSE c

\* A commit that writes the summaries and the marks but not the embeddings.
M2DCommitWithoutEmbeddings(p) ==
    /\ proc[p].pc = "m2dcommit"
    /\ summaries' = summaries \cup proc[p].sums
    /\ convs' = {Marked(c, proc[p].marks) : c \in convs}
    /\ proc' = [proc EXCEPT ![p] = [@ EXCEPT !.pc = "publish"]]
    /\ UNCHANGED <<now, tiers, embeddings, ret, coh, stats>>

M2DCommit(p) ==
    /\ proc[p].pc = "m2dcommit"
    /\ summaries' = summaries \cup proc[p].sums
    /\ embeddings' = embeddings \cup proc[p].embs
    /\ convs' = {Marked(c, proc[p].marks) : c \in convs}
    /\ proc' = [proc EXCEPT ![p] = [@ EXCEPT !.pc = "publish"]]
    /\ UNCHANGED <<now, tiers, ret, coh, stats>>

\* pubsub.publish returns and consolidate returns its result.
M2DPublish(p) ==
    /\ proc[p].pc = "publish"
    /\ proc' = [proc EXCEPT ![p] =
         [IdleProc EXCEPT !.pc = "done", !.op = "m2d",
            !.entity = proc[p].entity, !.cutoff = proc[p].cutoff,
            !.res = [NoRes EXCEPT !.status = "success",
                       !.processed = proc[p].count,
                       !.summaries = proc[p].ngroups]]]
    /\ UNCHANGED <<now, tiers, deep, ret, coh, stats>>

\* pubsub.publish raises after the commit.
M2DPublishFail(p) ==
    /\ proc[p].pc = "publish"
    /\ proc' = [proc EXCEPT ![p] = M2DFailed(p, "publish_error")]
    /\ UNCHANGED <<now, tiers, deep, ret, coh, stats>>

----------------------------------------------------------------------------
(* ContextualRetriever *)

\* The query limits 100, 100 and 50, scaled to the model's stores.
Tier1Limit == 2
Tier2Limit == 2
Tier3Limit == 1
DefaultScore == 50

Take(seq, n) == SubSeq(seq, 1, Min(n, Len(seq)))

\* order_by(created_at.desc()); the stores of the retrieval specification
\* hold no two rows of one tier with the same created_at.
RECURSIVE NewestFirst(_)
NewestFirst(S) ==
    IF S = {} THEN <<>>
    ELSE LET m == CHOOSE x \in S : \A y \in S : x.created >= y.created
         IN <<m>> \o NewestFirst(S \ {m})

Memory(t, m) ==
    [tier |-> t, id |-> m.id, type |-> m.type, kw |-> m.kw,
     created |-> m.created]

MemoriesOf(t, S, e, limit) ==
    LET rows == Take(NewestFirst({m \in S : m.entity = e}), limit)
    IN [i \in 1..Len(rows) |-> Memory(t, rows[i])]

\* The gathering part of retrieve.
Gather(e, include_tiers) ==
    (IF 1 \in include_tiers THEN MemoriesOf(1, tier1, e, Tier1Limit) ELSE <<>>)
    \o (IF 2 \in include_tiers THEN MemoriesOf(2, tier2, e, Tier2Limit) ELSE <<>>)
    \o (IF 3 \in include_tiers THEN MemoriesOf(3, tier3, e, Tier3Limit) ELSE <<>>)

Scored(m, s) ==
    [tier |-> m.tier, id |-> m.id, type |-> m.type, kw |-> m.kw,
     created |-> m.created, relevance_score |-> s]

\* The except branch of _rank_by_relevance.
Unranked(memories) ==
    [i \in 1..Len(memories) |-> Scored(memories[i], DefaultScore)]

\* A response of llm.complete.  kind: "raise" (the call raises), "not_json"
\* (json.loads raises), "not_object" (JSON that is no object: .get raises),
\* "bad_index" (a ranked index that is no integer: the comparison raises),
\* "object".  has_indices, has_scores: the two keys are present.
Response(k, hi, hs, idx, sc) ==
    [kind |-> k, has_indices |-> hi, has_scores |-> hs, indices |-> idx,
     scores |-> sc]

\* memories[idx] for a Python index: negative indices count from the end.
Position(idx, n) == IF idx < 0 THEN idx + n + 1 ELSE idx + 1

RECURSIVE SelectSeq2(_, _, _)
\* The positions i of the response whose index passes idx < len(memories).
SelectSeq2(indices, n, i) ==
    IF i > Len(indices) THEN <<>>
    ELSE (IF indices[i] < n THEN <<i>> ELSE <<>>) \o SelectSeq2(indices, n, i + 1)

\* The try branch of _rank_by_relevance.  The loop appends memories[idx],
\* the same dict each time idx comes back, so an entry shows the score of
\* the last position that named it; an index below -len(memories) raises.
RankByRelevance(memories, resp) ==
    LET n == Len(memories)
        indices == IF resp.has_indices THEN resp.indices ELSE <<>>
        scores == IF resp.has_scores THEN resp.scores ELSE <<>>
        ScoreAt(i) == IF i <= Len(scores) THEN scores[i] ELSE DefaultScore
        kept == SelectSeq2(indices, n, 1)
        LastOf(pos) ==
            CHOOSE i \in 1..Len(indices) :
               /\ indices[i] < n /\ Position(indices[i], n) = pos
               /\ \A j \in 1..Len(indices) :
                     (indices[j] < n /\ Position(indices[j], n) = pos) => j <= i
    IN IF resp.kind # "object" THEN Unranked(memories)
       ELSE IF \E i \in 1..Len(indices) : indices[i] < 0 - n
            THEN Unranked(memories)
       ELSE [k \in 1..Len(kept) |->
               Scored(memories[Position(indices[kept[k]], n)],
                      ScoreAt(LastOf(Position(indices[kept[k]], n))))]

NoResponse == Response("none", FALSE, FALSE, <<>>, <<>>)

\* The prompt takes memories[:50], scaled to the model's stores, and of each
\* the first 200 characters of its content.
PromptLimit == 3
ContentLimit == 200

\* len(m["content"]), the JSON text of interaction_data: a payload with a
\* keyword is a long one.
ContentLen(m) == IF m.kw THEN 450 ELSE 120

\* memory_summaries with every candidate in it.
DigestWhole(memories) ==
    [i \in 1..Len(memories) |-> Min(ContentLen(memories[i]), ContentLimit)]

\* memory_summaries: the length of the content each line carries.
Digest(memories) ==
    [i \in 1..Min(Len(memories), PromptLimit) |->
        Min(ContentLen(memories[i]), ContentLimit)]

\* calls: the calls of llm.complete the request has made; digest: the
\* memory_summaries of its prompt.
IdleRet ==
    [pc |-> "idle", entity |-> "", max_results |-> 0, include_tiers |-> {},
     all_memories |-> <<>>, calls |-> 0, digest |-> <<>>,
     resp |-> NoResponse, ranked |-> <<>>, result |-> <<>>]

\* retrieve from its candidate list to its return (no candidates) or to
\* the await of llm.complete in _rank_by_relevance.
Gathered(r, all) ==
    IF all = <<>>
    THEN [r EXCEPT !.pc = "done", !.all_memories = all]
    ELSE [r EXCEPT !.pc = "ranking", !.all_memories = all,
            !.digest = Digest(all), !.calls = @ + 1]

\* retrieve up to the call of _rank_by_relevance; an empty candidate list
\* returns at once.
RetGather(e, max_results, include_tiers) ==
    /\ ret.pc = "idle"
    /\ ret' = Gathered([IdleRet EXCEPT !.entity = e,
                           !.max_results = max_results,
                           !.include_tiers = include_tiers],
                        Gather(e, include_tiers))
    /\ UNCHANGED <<now, tiers, deep, proc, coh, stats>>

\* A retrieve that cuts the candidates to max_results before ranking them.
RetRankTruncatesFirst(resp) ==
    /\ ret.pc = "ranking"
    /\ LET ranked == RankByRelevance(Take(ret.all_memories, ret.max_results),
                                     resp)
       IN ret' = [ret EXCEPT !.pc = "done", !.resp = resp, !.ranked = ranked,
                    !.result = Take(ranked, ret.max_results)]
    /\ UNCHANGED <<now, tiers, deep, proc, coh, stats>>

\* llm.complete answers (or raises); the ranking and ranked[:max_results].
RetRank(resp) ==
    /\ ret.pc = "ranking"
    /\ LET ranked == RankByRelevance(ret.all_memories, resp)
       IN ret' = [ret EXCEPT !.pc = "done", !.resp = resp, !.ranked = ranked,
                    !.result = Take(ranked, ret.max_results)]
    /\ UNCHANGED <<now, tiers, deep, proc, coh, stats>>

----------------------------------------------------------------------------
(* CoherenceChecker *)

Max(a, b) == IF a > b THEN a ELSE b

StaleDays == 7
StaleLimit == 100
SampleLimit == 20
MinSamples == 5

\* The test with >= in place of >.
ImbalancedOrEqual(tier1_count, tier2_count) ==
    tier2_count * 10 >= tier1_count * 8

\* tier2_count > tier1_count * 0.8.  The product is a double: for counts
\* whose exact product is an integer it is that integer, otherwise it lies
\* strictly between the same two integers as the exact product, so the
\* comparison with the integer tier2_count decides as 10 t2 > 8 t1.
Imbalanced(tier1_count, tier2_count) == tier2_count * 10 > tier1_count * 8

\* The score without max(0, ...).
CoherenceScoreUnclamped(n) == [tenths |-> 10 - n, below |-> n \in 6..9]

\* max(0, 1.0 - (len(issues) * 0.1)) in tenths.  below: the double is one or
\* two units in the last place under the decimal value (0.3999999999999999,
\* 0.29999999999999993, 0.19999999999999996, 0.09999999999999998).
CoherenceScore(n) == [tenths |-> Max(0, 10 - n), below |-> n \in 6..9]

\* An element of the issues list.  kind "dict" with has_type: a dict with a
\* "type" key; the judgment can also send dicts without the key and
\* elements that are no dicts.
Issue(k, ht, t, sev) ==
    [kind |-> k, has_type |-> ht, type |-> t, severity |-> sev]

TierImbalance == Issue("dict", TRUE, "tier_imbalance", "medium")
StaleMemories == Issue("dict", TRUE, "stale_memories", "low")

\* A response of llm.complete in _check_content_coherence.  kind as for the
\* ranking; has_issues: the "issues" key is present; is_list: its value is
\* a list (otherwise null).
CohResponse(k, hi, il, items) ==
    [kind |-> k, has_issues |-> hi, is_list |-> il, items |-> items]

NoCohResponse == CohResponse("none", FALSE, TRUE, <<>>)

\* What _check_content_coherence returns for a response: [] from the bare
\* except and for a missing key, otherwise the value of "issues" as sent.
ContentIssues(resp) ==
    IF resp.kind = "object" /\ resp.has_issues
    THEN [is_list |-> resp.is_list, items |-> resp.items]
    ELSE [is_list |-> TRUE, items |-> <<>>]

RECURSIVE GenerateRecommendations(_)
\* _generate_recommendations over issues whose elements all have a type.
GenerateRecommendations(issues) ==
    IF issues = <<>> THEN <<>>
    ELSE LET t == Head(issues).type
         IN (IF t = "tier_imbalance"
             THEN <<"Run memory consolidation to balance tiers">>
             ELSE IF t = "stale_memories"
             THEN <<"Archive old Tier 1 memories to lower tiers">>
             ELSE IF t = "contradiction"
             THEN <<"Review and resolve contradictory memories">>
             ELSE <<>>)
            \o GenerateRecommendations(Tail(issues))

\* issue["type"] raises for an element without the key or that is no dict.
Typed(issues) ==
    \A i \in 1..Len(issues) : issues[i].kind = "dict" /\ issues[i].has_type

NoReport ==
    [coherence_score |-> CoherenceScore(0),
     tier_counts |-> [tier1 |-> 0, tier2 |-> 0, tier3 |-> 0],
     issues_found |-> 0, issues |-> <<>>, recommendations |-> <<>>]

IdleCoh ==
    [pc |-> "idle", entity |-> "", depth |-> "", tier1_count |-> 0,
     tier2_count |-> 0, tier3_count |-> 0, stale_tier1 |-> 0,
     issues |-> <<>>, resp |-> NoCohResponse, report |-> NoReport]

\* The end of check_coherence: issues.extend(content_issues), the score and
\* the report.  extend(None) and issue["type"] raise out of check_coherence
\* and the endpoint answers 500.
CohFinished(c, content) ==
    LET issues == c.issues \o content.items
    IN IF ~content.is_list \/ ~Typed(issues)
       THEN [c EXCEPT !.pc = "failed"]
       ELSE [c EXCEPT !.pc = "done", !.issues = issues,
               !.report = [coherence_score |-> CoherenceScore(Len(issues)),
                           tier_counts |-> [tier1 |-> c.tier1_count,
                                            tier2 |-> c.tier2_count,
                                            tier3 |-> c.tier3_count],
                           issues_found |-> Len(issues),
                           issues |-> issues,
                           recommendations |-> GenerateRecommendations(issues)]]

\* check_coherence up to the judgment call of a deep check; without one
\* (another depth, or fewer than 5 samples) up to the return.
CohCheck(e, depth) ==
    /\ coh.pc = "idle"
    /\ LET t1 == Cardinality({m \in tier1 : m.entity = e})
           t2 == Cardinality({m \in tier2 : m.entity = e})
           t3 == Cardinality({m \in tier3 : m.entity = e})
           stale == Cardinality({m \in tier1 : m.entity = e
                                   /\ m.created < now - StaleDays})
           issues == (IF Imbalanced(t1, t2) THEN <<TierImbalance>> ELSE <<>>)
                     \o (IF stale > StaleLimit THEN <<StaleMemories>> ELSE <<>>)
           c == [IdleCoh EXCEPT !.entity = e, !.depth = depth,
                   !.tier1_count = t1, !.tier2_count = t2, !.tier3_count = t3,
                   !.stale_tier1 = stale, !.issues = issues]
       IN coh' = IF depth = "deep" /\ Min(t2, SampleLimit) >= MinSamples
                 THEN [c EXCEPT !.pc = "judging"]
                 ELSE CohFinished(c, ContentIssues(NoCohResponse))
    /\ UNCHANGED <<now, tiers, deep, proc, ret, stats>>

\* llm.complete answers (or raises) and check_coherence runs to its end.
CohJudge(resp) ==
    /\ coh.pc = "judging"
    /\ coh' = CohFinished([coh EXCEPT !.resp = resp], ContentIssues(resp))
    /\ UNCHANGED <<now, tiers, deep, proc, ret, stats>>

----------------------------------------------------------------------------
(* get_memory_stats *)

CountOf(S, e) == Cardinality({r \in S : r.entity = e})

GetStats(e) ==
    [tier1 |-> CountOf(tier1, e), tier2 |-> CountOf(tier2, e),
     tier3 |-> CountOf(tier3, e)]

\* The /stats request.  memory_tier4 has no writer in these services: its
\* count is 0.
IdleStats ==
    [pc |-> "idle", entity |-> "", tier1 |-> 0, tier2 |-> 0, tier3 |-> 0,
     tier4 |-> 0, total |-> 0]

----------------------------------------------------------------------------
(* The three reads, one query at a time.  A session runs at PostgreSQL's   *)
(* default isolation, READ COMMITTED (models/base.py sets none): every     *)
(* query sees the rows committed when it starts, so a commit of another    *)
(* process can fall between two queries of one request.                    *)

TierStore(t) == CASE t = 1 -> tier1 [] t = 2 -> tier2 [] OTHER -> tier3
TierLimit(t) ==
    CASE t = 1 -> Tier1Limit [] t = 2 -> Tier2Limit [] OTHER -> Tier3Limit
TierPc(t) == CASE t = 1 -> "tier1" [] t = 2 -> "tier2" [] OTHER -> "tier3"

\* The endpoint builds the retriever and calls retrieve.
RetBegin(e, max_results, include_tiers) ==
    /\ ret.pc = "idle"
    /\ ret' = [IdleRet EXCEPT !.pc = TierPc(1), !.entity = e,
                 !.max_results = max_results,
                 !.include_tiers = include_tiers]
    /\ UNCHANGED <<now, tiers, deep, proc, coh, stats>>

\* A query of tier 1 that removes the rows it returns.
RetQueryConsumes(t) ==
    /\ ret.pc = TierPc(t)
    /\ LET found == IF t \in ret.include_tiers
                    THEN MemoriesOf(t, TierStore(t), ret.entity, TierLimit(t))
                    ELSE <<>>
           all == ret.all_memories \o found
       IN /\ ret' = IF t < 3
                      THEN [ret EXCEPT !.all_memories = all,
                              !.pc = TierPc(t + 1)]
                      ELSE Gathered(ret, all)
          /\ tier1' = IF t = 1
                      THEN {m \in tier1 :
                              \A i \in 1..Len(found) : found[i].id # m.id}
                      ELSE tier1
    /\ UNCHANGED <<now, ingested, tier2, tier3, deep, proc, coh, stats>>

\* The query of tier t, if the request includes the tier; after the third,
\* an empty candidate list returns at once.
RetQuery(t) ==
    /\ ret.pc = TierPc(t)
    /\ LET found == IF t \in ret.include_tiers
                    THEN MemoriesOf(t, TierStore(t), ret.entity, TierLimit(t))
                    ELSE <<>>
           all == ret.all_memories \o found
       IN ret' = IF t < 3
                 THEN [ret EXCEPT !.all_memories = all, !.pc = TierPc(t + 1)]
                 ELSE Gathered(ret, all)
    /\ UNCHANGED <<now, tiers, deep, proc, coh, stats>>

StatsBegin(e) ==
    /\ stats.pc = "idle"
    /\ stats' = [IdleStats EXCEPT !.pc = TierPc(1), !.entity = e]
    /\ UNCHANGED <<now, tiers, deep, proc, ret, coh>>

\* The count query of tier t; after the third, the count of tier 4 and the
\* answer.
StatsCount(t) ==
    /\ stats.pc = TierPc(t)
    /\ LET n == CountOf(TierStore(t), stats.entity)
           c == CASE t = 1 -> [stats EXCEPT !.tier1 = n]
                  [] t = 2 -> [stats EXCEPT !.tier2 = n]
                  [] OTHER -> [stats EXCEPT !.tier3 = n]
       IN stats' = IF t < 3 THEN [c EXCEPT !.pc = TierPc(t + 1)]
                   ELSE [c EXCEPT !.pc = "done",
                           !.total = c.tier1 + c.tier2 + c.tier3 + c.tier4]
    /\ UNCHANGED <<now, tiers, deep, proc, ret, coh>>

CohBegin(e, depth) ==
    /\ coh.pc = "idle"
    /\ coh' = [IdleCoh EXCEPT !.pc = TierPc(1), !.entity = e,
                 !.depth = depth]
    /\ UNCHANGED <<now, tiers, deep, proc, ret, stats>>

\* The count query of tier t.
CohCount(t) ==
    /\ coh.pc = TierPc(t)
    /\ LET n == CountOf(TierStore(t), coh.entity)
       IN coh' = CASE t = 1 -> [coh EXCEPT !.tier1_count = n, !.pc = TierPc(2)]
                   [] t = 2 -> [coh EXCEPT !.tier2_count = n, !.pc = TierPc(3)]
                   [] OTHER -> [coh EXCEPT !.tier3_count = n, !.pc = "stale"]
    /\ UNCHANGED <<now, tiers, deep, proc, ret, stats>>

\* The imbalance test, the stale count and its test; a check that is not
\* deep then runs to its end.
CohStale ==
    /\ coh.pc = "stale"
    /\ LET stale == Cardinality({m \in tier1 : m.entity = coh.entity
                                   /\ m.created < now - StaleDays})
           issues == (IF Imbalanced(coh.tier1_count, coh.tier2_count)
                      THEN <<TierImbalance>> ELSE <<>>)
                     \o (IF stale > StaleLimit THEN <<StaleMemories>> ELSE <<>>)
           c == [coh EXCEPT !.stale_tier1 = stale, !.issues = issues]
       IN coh' = IF coh.depth = "deep" THEN [c EXCEPT !.pc = "sample"]
                 ELSE CohFinished(c, ContentIssues(NoCohResponse))
    /\ UNCHANGED <<now, tiers, deep, proc, ret, stats>>

\* The sample query of _check_content_coherence; fewer than 5 rows end the
\* check without a judgment call.
CohSample ==
    /\ coh.pc = "sample"
    /\ coh' = IF Min(CountOf(tier2, coh.entity), SampleLimit) >= MinSamples
              THEN [coh EXCEPT !.pc = "judging"]
              ELSE CohFinished(coh, ContentIssues(NoCohResponse))
    /\ UNCHANGED <<now, tiers, deep, proc, ret, stats>>

----------------------------------------------------------------------------
(* Clock *)

Tick ==
    /\ now < StartDay + ClockDays
    /\ now' = now + 1
    /\ UNCHANGED <<tiers, deep, proc, ret, coh, stats>>

----------------------------------------------------------------------------
(* Specification of the migration passes *)

\* Initial stores: up to MaxRec ingested rows, ids in profile order.
InitTier1Sets ==
    UNION {{ {Tier1Row(n, Catalogue[f[n]]) : n \in 1..k} :
               f \in {g \in [1..k -> 1..Len(Catalogue)] :
                        \A i \in 1..k, j \in 1..k : i < j => g[i] <= g[j]} }
           : k \in 0..MaxRec}

\* The two engines share no table: the initial store holds tier-1 rows or
\* conversations.
InitConvSets ==
    UNION {{ {Conv(n, ConvCatalogue[f[n]].entity, ConvCatalogue[f[n]].created)
                : n \in 1..k} :
               f \in {g \in [1..k -> 1..Len(ConvCatalogue)] :
                        \A i \in 1..k, j \in 1..k : i < j => g[i] <= g[j]} }
           : k \in 0..MaxConv}

Init ==
    /\ now = StartDay
    /\ tier1 \in InitTier1Sets
    /\ ingested = tier1
    /\ tier2 = {}
    /\ tier3 = {}
    /\ convs \in InitConvSets
    /\ tier1 = {} \/ convs = {}
    /\ summaries = {}
    /\ embeddings = {}
    /\ proc = [p \in Procs |-> IdleProc]
    /\ ret = IdleRet
    /\ coh = IdleCoh
    /\ stats = IdleStats

Next ==
    \/ \E p \in Procs, e \in ReqEntities, d \in DaysInputs : MCStart(p, e, d)
    \/ \E p \in Procs : MCRoute(p)
    \/ \E p \in Procs : MCDelete(p)
    \/ \E p \in Procs : MCCommit(p)
    \/ \E p \in Procs : MCFail(p)
    \/ \E p \in Procs, e \in ReqEntities : M2DStart(p, e)
    \/ \E p \in Procs : M2DGroup(p)
    \/ \E p \in Procs : M2DJudgmentFail(p)
    \/ \E p \in Procs : M2DStorageFail(p)
    \/ \E p \in Procs : M2DCancel(p)
    \/ \E p \in Procs : M2DCommit(p)
    \/ \E p \in Procs : M2DPublish(p)
    \/ \E p \in Procs : M2DPublishFail(p)
    \/ Tick

Spec == Init /\ [][Next]_vars

----------------------------------------------------------------------------
(* Specification of one consolidation pass over a larger tier 1 *)

MaxBatchRows == 3     \* tier-1 rows in the initial store

BatchTier1Sets ==
    UNION {{ {Tier1Row(n, Catalogue[f[n]]) : n \in 1..k} :
               f \in {g \in [1..k -> 1..Len(Catalogue)] :
                        \A i \in 1..k, j \in 1..k : i < j => g[i] <= g[j]} }
           : k \in 0..MaxBatchRows}

InitBatch ==
    /\ now = StartDay
    /\ tier1 \in BatchTier1Sets
    /\ ingested = tier1
    /\ tier2 = {}
    /\ tier3 = {}
    /\ convs = {}
    /\ summaries = {}
    /\ embeddings = {}
    /\ proc = [p \in Procs |-> IdleProc]
    /\ ret = IdleRet
    /\ coh = IdleCoh
    /\ stats = IdleStats

NextBatch ==
    \/ \E e \in KnownEntities, d \in DaysInputs : MCStart("p1", e, d)
    \/ MCRoute("p1")
    \/ MCDelete("p1")
    \/ MCCommit("p1")
    \/ MCFail("p1")

SpecBatch == InitBatch /\ [][NextBatch]_vars

----------------------------------------------------------------------------
(* Specification of retrieval over a fixed store *)

MaxTierRows == 2      \* rows of e1 in each tier of the store

\* Row n of entity e1 in tier t, created 3t + n days before the start.
StoreRow(t, n) ==
    LET r == Row(<<"ingest", 10 * t + n>>, "e1",
                 IF n = 1 THEN "decision" ELSE "note", n = 2,
                 StartDay - 3 * t - n, NoId)
    IN IF t = 3 THEN Summarized(r) ELSE r

StoreRows(t, k) == {StoreRow(t, n) : n \in 1..k}

OtherEntityRow(t) ==
    Row(<<"ingest", 10 * t>>, "e2", "event", FALSE, StartDay - 1, NoId)

MaxResultsInputs == {1, 2, 5}
IncludeTiersInputs == {{1, 2, 3}, {2}, {1, 3}, {1, 2, 3, 4}}
IndexInputs == {-1, 0, 1, 9}
ScoreInputs == {20, 90}
MaxRanked == 2        \* entries of ranked_indices and of relevance_scores

SeqsUpTo(S, n) == UNION {[1..k -> S] : k \in 0..n}

Responses ==
    {Response(k, FALSE, FALSE, <<>>, <<>>) :
        k \in {"raise", "not_json", "not_object", "bad_index"}}
    \cup {Response("object", hi, hs, IF hi THEN idx ELSE <<>>,
                   IF hs THEN sc ELSE <<>>) :
            hi \in BOOLEAN, hs \in BOOLEAN,
            idx \in SeqsUpTo(IndexInputs, MaxRanked),
            sc \in SeqsUpTo(ScoreInputs, MaxRanked)}

InitRet ==
    /\ now = StartDay
    /\ \E k1 \in 0..MaxTierRows, k2 \in 0..MaxTierRows, k3 \in 0..MaxTierRows :
          /\ tier1 = StoreRows(1, k1) \cup {OtherEntityRow(1)}
          /\ tier2 = StoreRows(2, k2) \cup {OtherEntityRow(2)}
          /\ tier3 = StoreRows(3, k3)
    /\ ingested = tier1
    /\ convs = {}
    /\ summaries = {}
    /\ embeddings = {}
    /\ proc = [p \in Procs |-> IdleProc]
    /\ ret = IdleRet
    /\ coh = IdleCoh
    /\ stats = IdleStats

NextRet ==
    \/ \E e \in {"e1"}, n \in MaxResultsInputs, ts \in IncludeTiersInputs :
          RetGather(e, n, ts)
    \/ \E resp \in Responses : RetRank(resp)

SpecRet == InitRet /\ [][NextRet]_vars

\* The event loop runs a request it has accepted up to its await of
\* llm.complete.  retrieve awaits the answer with no timeout (no
\* asyncio.wait_for, no timeout argument), so the answer step is the
\* judgment's alone and has no fairness: the judgment may stay silent.
SpecRetLive ==
    /\ SpecRet
    /\ WF_vars(\E e \in {"e1"}, n \in MaxResultsInputs,
                  ts \in IncludeTiersInputs : RetGather(e, n, ts))

----------------------------------------------------------------------------
(* Specification of retrieval with answers that index past the digest *)

\* Indices of the first candidate, of the first candidate left out of the
\* digest and of the one after it.
DigestIndexInputs == {0, PromptLimit, PromptLimit + 1}

DigestResponses ==
    {Response("object", TRUE, TRUE, idx, sc) :
        idx \in SeqsUpTo(DigestIndexInputs, MaxRanked),
        sc \in SeqsUpTo(ScoreInputs, 1)}

NextDigest ==
    \/ \E e \in {"e1"}, n \in MaxResultsInputs, ts \in IncludeTiersInputs :
          RetGather(e, n, ts)
    \/ \E resp \in DigestResponses : RetRank(resp)

SpecDigest == InitRet /\ [][NextDigest]_vars

----------------------------------------------------------------------------
(* Specification of coherence checks over a fixed store *)

\* Row n of entity e1 in tier t, created on day c.
CohRow(t, n, c) ==
    LET r == Row(<<"ingest", 1000 * t + n>>, "e1", "note", FALSE, c, NoId)
    IN IF t = 3 THEN Summarized(r) ELSE r

\* n rows of tier t, the first k of them created on day c, the others on
\* day d.
CohRows(t, n, k, c, d) ==
    {CohRow(t, i, IF i <= k THEN c ELSE d) : i \in 1..n}

Tier2RetentionDays == 30
Tier3RetentionDays == 365

\* <<rows, stale rows>> of tier 1 and <<rows, rows past retention>> of tier
\* 2.  A tier-1 row that is not stale is exactly StaleDays old.
Tier1Inputs ==
    {<<0, 0>>, <<5, 0>>, <<100, 0>>, <<100, 100>>, <<101, 100>>, <<101, 101>>}
Tier2Inputs ==
    {<<0, 0>>, <<4, 0>>, <<5, 0>>, <<50, 0>>, <<80, 0>>, <<81, 0>>, <<90, 0>>,
     <<101, 101>>}

DepthInputs == {"quick", "standard", "deep"}

MaxEntries == 2       \* elements of a mixed "issues" list of the judgment
LongListInputs == {8, 9, 10, 11}

Contradiction == Issue("dict", TRUE, "contradiction", "none")

EntryInputs ==
    {Contradiction,
     Issue("dict", TRUE, "inconsistency", "none"),
     Issue("dict", FALSE, "", "none"),
     Issue("notdict", FALSE, "", "none")}

CohResponses ==
    {CohResponse(k, FALSE, TRUE, <<>>) : k \in {"raise", "not_json", "not_object"}}
    \cup {CohResponse("object", FALSE, TRUE, <<>>),
          CohResponse("object", TRUE, FALSE, <<>>)}
    \cup {CohResponse("object", TRUE, TRUE, items) :
            items \in SeqsUpTo(EntryInputs, MaxEntries)}
    \cup {CohResponse("object", TRUE, TRUE, [i \in 1..k |-> Contradiction]) :
            k \in LongListInputs}

InitCoh ==
    /\ now = StartDay
    /\ \E a \in Tier1Inputs, b \in Tier2Inputs, k3 \in 0..1 :
          /\ tier1 = CohRows(1, a[1], a[2], StartDay - StaleDays - 1,
                             StartDay - StaleDays)
                     \cup {OtherEntityRow(1)}
          /\ tier2 = CohRows(2, b[1], b[2], StartDay - Tier2RetentionDays - 1,
                             StartDay - 1)
                     \cup {OtherEntityRow(2)}
          /\ tier3 = CohRows(3, k3, 0, StartDay - 1, StartDay - 1)
    /\ ingested = tier1
    /\ convs = {}
    /\ summaries = {}
    /\ embeddings = {}
    /\ proc = [p \in Procs |-> IdleProc]
    /\ ret = IdleRet
    /\ coh = IdleCoh
    /\ stats = IdleStats

NextCoh ==
    \/ \E e \in KnownEntities, d \in DepthInputs : CohCheck(e, d)
    \/ \E resp \in CohResponses : CohJudge(resp)

SpecCoh == InitCoh /\ [][NextCoh]_vars

----------------------------------------------------------------------------
(* Specification of the reads beside one consolidation pass *)

MaxReadRows == 2      \* tier-1 rows of e1 in the initial store

\* Row n of tier 1: a decision (to tier 2), a task execution (to tier 3), an
\* event (discarded), and so on; all old.
ReadProfile(n) ==
    CASE n % 3 = 1 -> Catalogue[1]
      [] n % 3 = 2 -> Catalogue[3]
      [] OTHER     -> Catalogue[6]

ReadTier1(k) == {Tier1Row(n, ReadProfile(n)) : n \in 1..k}

ReadIncludeTiers == {{1, 2, 3}, {2, 3}}
ReadDepths == {"quick", "deep"}
ReadResponses ==
    {Response("raise", FALSE, FALSE, <<>>, <<>>),
     Response("object", TRUE, TRUE, <<0>>, <<90>>)}
ReadCohResponses ==
    {CohResponse("raise", FALSE, TRUE, <<>>),
     CohResponse("object", TRUE, TRUE, <<Contradiction>>)}

InitRead ==
    /\ now = StartDay
    /\ \E k1 \in 1..MaxReadRows, n2 \in {0, MinSamples} :
          /\ tier1 = ReadTier1(k1) \cup {OtherEntityRow(1)}
          /\ tier2 = CohRows(2, n2, 0, StartDay - 1, StartDay - 1)
    /\ tier3 = {}
    /\ ingested = tier1
    /\ convs = {}
    /\ summaries = {}
    /\ embeddings = {}
    /\ proc = [p \in Procs |-> IdleProc]
    /\ ret = IdleRet
    /\ coh = IdleCoh
    /\ stats = IdleStats

NextRead ==
    \/ \E d \in DaysInputs : MCStart("p1", "e1", d)
    \/ MCRoute("p1")
    \/ MCDelete("p1")
    \/ MCCommit("p1")
    \/ MCFail("p1")
    \/ \E ts \in ReadIncludeTiers : RetBegin("e1", 5, ts)
    \/ \E t \in 1..3 : RetQuery(t)
    \/ \E resp \in ReadResponses : RetRank(resp)
    \/ StatsBegin("e1")
    \/ \E t \in 1..3 : StatsCount(t)
    \/ \E d \in ReadDepths : CohBegin("e1", d)
    \/ \E t \in 1..3 : CohCount(t)
    \/ CohStale
    \/ CohSample
    \/ \E resp \in ReadCohResponses : CohJudge(resp)

SpecRead == InitRead /\ [][NextRead]_vars

----------------------------------------------------------------------------
(* Properties of the migration passes *)

Successors == tier2 \cup tier3
Committed(p) == proc[p].pc = "done" /\ proc[p].res.status = "consolidation_complete"

C2_NoDoublePromotion ==
    /\ \A d1 \in Successors, d2 \in Successors : d1.src = d2.src => d1 = d2
    /\ \A s1 \in summaries, s2 \in summaries :
          s1.covers \cap s2.covers # {} => s1 = s2

Routed(p) ==
    (proc[p].old \ proc[p].todo) \cup
        (IF proc[p].pc = "del" THEN {proc[p].cur} ELSE {})

\* C4 (routing policy), as claimed.  A routed row has a tier-2 successor
\* iff its score is at least 0.7, a tier-3 successor iff its score is at
\* least 0.4 and below 0.7, and none iff its score is below 0.4.
C4_RoutingPolicy ==
    \A p \in Procs : \A m \in Routed(p) :
       LET s == EvaluateImportance(m)
           in2 == \E d \in proc[p].adds2 : d.src = m.id
           in3 == \E d \in proc[p].adds3 : d.src = m.id
       IN /\ in2 <=> s >= HighThreshold
          /\ in3 <=> (s >= LowThreshold /\ s < HighThreshold)
          /\ (~in2 /\ ~in3) <=> s < LowThreshold

ScoreCount(S, lo, hi) ==
    Cardinality({m \in S : EvaluateImportance(m) >= lo /\
                           EvaluateImportance(m) < hi})

\* C5 (migration accounting), as claimed.  When a pass whose selected rows
\* are all still in tier 1 commits, it returns processed = a+b+c,
\* promoted_tier2 = a, promoted_tier3 = b, discarded = c for the a rows
\* scored >= 0.7, the b rows in [0.4, 0.7) and the c rows < 0.4, and
\* get_memory_stats moves by -(a+b+c), +a, +b.
C5_Accounting ==
    [][\A p \in Procs :
         (/\ proc[p].pc = "commit"
          /\ proc'[p].pc = "done"
          /\ proc[p].old \subseteq tier1) =>
            LET a == ScoreCount(proc[p].old, HighThreshold, 101)
                b == ScoreCount(proc[p].old, LowThreshold, HighThreshold)
                c == ScoreCount(proc[p].old, 0, LowThreshold)
                e == proc[p].entity
            IN /\ proc'[p].res.processed = a + b + c
               /\ proc'[p].res.moved2 = a
               /\ proc'[p].res.moved3 = b
               /\ proc'[p].res.archived = c
               /\ GetStats(e)'.tier1 = GetStats(e).tier1 - (a + b + c)
               /\ GetStats(e)'.tier2 = GetStats(e).tier2 + a
               /\ GetStats(e)'.tier3 = GetStats(e).tier3 + b]_vars

\* C6 (partial judgment failure), as claimed.  A judgment failure for one
\* period never fails the pass: the pass goes on and returns a result.
C6_JudgmentFailureSkipsGroup ==
    \A p \in Procs :
       proc[p].pc = "failed" => proc[p].res.status # "judgment_error"

----------------------------------------------------------------------------
(* Properties of retrieval *)

\* The judgment failed or its output is not the ranking asked for: the call
\* raised, the text is no JSON object, the ranked_indices key is missing, or
\* an index names no candidate.
Malformed(resp, n) ==
    \/ resp.kind # "object"
    \/ ~resp.has_indices
    \/ \E i \in 1..Len(resp.indices) : resp.indices[i] \notin 0..(n - 1)

\* C7: when the relevance judgment fails or returns malformed output while
\* the candidate pool is not empty, retrieve returns the first
\* min(max_results, pool size) candidates, each with relevance 0.5.
C7_FailOpen ==
    (ret.pc = "done" /\ ret.all_memories # <<>>
       /\ Malformed(ret.resp, Len(ret.all_memories)))
    => /\ Len(ret.result) = Min(ret.max_results, Len(ret.all_memories))
       /\ \A i \in 1..Len(ret.result) :
             /\ ret.result[i].relevance_score = DefaultScore
             /\ ret.result[i].id = ret.all_memories[i].id

RelevanceFloor == 30

\* C8: after a successful ranking no returned item has a relevance score
\* below 0.3.
C8_RelevanceFloor ==
    (ret.pc = "done" /\ ret.resp.kind = "object")
    => \A i \in 1..Len(ret.result) :
          ret.result[i].relevance_score >= RelevanceFloor

\* C9: the returned list is in non-increasing order of relevance score, and
\* of two items with equal scores the more recent one comes first.
C9_Ordering ==
    ret.pc = "done"
    => \A i \in 1..Len(ret.result) : \A j \in (i + 1)..Len(ret.result) :
          /\ ret.result[i].relevance_score >= ret.result[j].relevance_score
          /\ (ret.result[i].relevance_score = ret.result[j].relevance_score
                => ret.result[i].created >= ret.result[j].created)

\* The rows of entity e stored in tier t.
StoredIn(t, e) ==
    {m.id : m \in {x \in (IF t = 1 THEN tier1 ELSE IF t = 2 THEN tier2
                          ELSE IF t = 3 THEN tier3 ELSE {}) : x.entity = e}}

\* C10: the tiers filter acts before gathering and max_results after
\* ranking: every candidate and every returned item is a row of the entity
\* in a requested tier, every requested tier with rows contributes its
\* newest row to the candidates, at most max_results items are returned,
\* they are the head of the ranked list, and the candidate the judgment
\* ranks first is returned first wherever it stood among the candidates.
C10_FilterThenTruncate ==
    ret.pc = "done"
    => /\ \A i \in 1..Len(ret.all_memories) :
             /\ ret.all_memories[i].tier \in ret.include_tiers
             /\ ret.all_memories[i].id
                  \in StoredIn(ret.all_memories[i].tier, ret.entity)
       /\ \A t \in ret.include_tiers :
             StoredIn(t, ret.entity) # {}
             => \E i \in 1..Len(ret.all_memories) : ret.all_memories[i].tier = t
       /\ Len(ret.result) = Min(ret.max_results, Len(ret.ranked))
       /\ \A i \in 1..Len(ret.result) :
             /\ ret.result[i] = ret.ranked[i]
             /\ ret.result[i].tier \in ret.include_tiers
       /\ (/\ ret.resp.kind = "object"
           /\ ret.resp.indices # <<>>
           /\ \A i \in 1..Len(ret.resp.indices) :
                 ret.resp.indices[i] \in 0..(Len(ret.all_memories) - 1))
          => /\ ret.result # <<>>
             /\ ret.result[1].id
                  = ret.all_memories[ret.resp.indices[1] + 1].id

\* A request for some tiers only, with rows in a tier it leaves out, whose
\* judgment ranks first a candidate standing beyond max_results, and whose
\* ranked list is longer than max_results.
C10_Witness ==
    /\ ret.pc = "done"
    /\ ret.resp.kind = "object"
    /\ \E t \in {1, 2, 3} \ ret.include_tiers : StoredIn(t, ret.entity) # {}
    /\ Len(ret.ranked) > ret.max_results
    /\ ret.resp.indices # <<>>
    /\ ret.resp.indices[1] \in ret.max_results..(Len(ret.all_memories) - 1)
    /\ ret.result[1].id = ret.all_memories[ret.resp.indices[1] + 1].id

----------------------------------------------------------------------------
(* Properties of the rows the passes write *)

\* C11, as claimed: every tier-3 row carries a summary and an embedding.
C11_Tier3WellFormed == \A m \in tier3 : m.summary /\ m.embedding

\* C12, as claimed: every tier-2 row written by a migration pass carries a
\* generated summary.
C12_Tier2Summary == \A m \in tier2 : m.src # NoId => m.summary

\* C13: tier monotonicity.  No step puts a row into tier 1; every row a step
\* puts into tier 2 or tier 3 is the successor of a record of tier 1, and
\* never of a row of tier 2 or tier 3.
C13_TierMonotonic ==
    [][/\ tier1' \subseteq tier1
       /\ \A m \in (tier2' \ tier2) \cup (tier3' \ tier3) :
             /\ m.src \in {r.id : r \in ingested}
             /\ m.src \notin {r.id : r \in tier2 \cup tier3}]_vars

\* One pass has moved a record to tier 2 and another record to tier 3.
C13_Witness ==
    \E p \in Procs :
       /\ Committed(p)
       /\ \E m \in tier2 : m.id[1] = p /\ m.src \notin {r.id : r \in tier1}
       /\ \E m \in tier3 : m.id[1] = p /\ m.src \notin {r.id : r \in tier1}

\* C15, as claimed: the periods a cancelled run had processed are
\* committed.
C15_CancelKeepsGroups ==
    \A p \in Procs :
       (proc[p].pc = "failed" /\ proc[p].res.status = "cancelled")
       => proc[p].sums \subseteq summaries

\* C14, as claimed: no pass selects more source records than the batch
\* limit, however many are eligible.
C14_BoundedSelection ==
    \A p \in Procs :
       /\ Cardinality(proc[p].old) <= BatchLimit
       /\ Cardinality(proc[p].sel) <= BatchLimit

----------------------------------------------------------------------------
(* Properties of coherence checks *)

\* The report lists the medium-severity tier_imbalance issue.
ReportsImbalance ==
    \E i \in 1..Len(coh.report.issues) : coh.report.issues[i] = TierImbalance

\* The report lists the low-severity stale_memories issue.
ReportsStale ==
    \E i \in 1..Len(coh.report.issues) : coh.report.issues[i] = StaleMemories

DeepCheckFailed == coh.resp.kind \in {"raise", "not_json", "not_object"}

\* C17, as claimed: a deep check ends with a report whatever the judgment
\* answers, and a failed judgment adds no issue to it.
C17_DeepCheckDegrades ==
    /\ coh.pc # "failed"
    /\ (coh.pc = "done" /\ DeepCheckFailed)
       => \A i \in 1..Len(coh.report.issues) :
             coh.report.issues[i] \in {TierImbalance, StaleMemories}

\* C18: the score of a report is max(0, 1 - 0.1 n) for its n issues, to
\* within the rounding of the double arithmetic; it lies in [0, 1], is
\* exactly 1 when and only when there is no issue, and is exactly 0 for ten
\* issues or more.
C18_CoherenceScore ==
    coh.pc = "done"
    => LET n == Len(coh.report.issues)
           sc == coh.report.coherence_score
       IN /\ coh.report.issues_found = n
          /\ sc.tenths = (IF n >= 10 THEN 0 ELSE 10 - n)
          /\ sc.tenths \in 0..10
          /\ (sc.tenths = 10 /\ ~sc.below) <=> n = 0
          /\ n >= 10 => (sc.tenths = 0 /\ ~sc.below)

\* A report with more than ten issues and score 0.
C18_Witness ==
    /\ coh.pc = "done"
    /\ Len(coh.report.issues) > 10
    /\ coh.report.coherence_score.tenths = 0

KnownIssueTypes == {"tier_imbalance", "stale_memories", "contradiction"}

\* C19, as claimed: each issue type present in a report yields its
\* recommendation once.
C19_OneRecommendationPerType ==
    coh.pc = "done"
    => LET recs == coh.report.recommendations
           present == {coh.report.issues[i].type :
                         i \in 1..Len(coh.report.issues)}
       IN /\ Len(recs) = Cardinality(present \cap KnownIssueTypes)
          /\ \A i \in 1..Len(recs) : \A j \in 1..Len(recs) :
                i # j => recs[i] # recs[j]

\* The entity's rows that are past the retention threshold of their tier.
PastRetention(e) ==
    {m \in tier1 : m.entity = e /\ m.created < now - StaleDays}
    \cup {m \in tier2 : m.entity = e /\ m.created < now - Tier2RetentionDays}
    \cup {m \in tier3 : m.entity = e /\ m.created < now - Tier3RetentionDays}

\* C20, as claimed: a report lists the stale_memories issue exactly when
\* more than 100 records are past the retention threshold of their tier.
C20_StalenessCheck ==
    coh.pc = "done"
    => (ReportsStale <=> Cardinality(PastRetention(coh.entity)) > StaleLimit)

----------------------------------------------------------------------------
(* Properties of the reads beside a consolidation pass *)

\* C21: a step of Retrieve, CheckCoherence or GetStats leaves every row of
\* every tier, and every conversation, summary and embedding, as it was.
C21_ReadOnly ==
    [][(ret' # ret \/ coh' # coh \/ stats' # stats)
         => UNCHANGED <<tiers, deep>>]_vars

\* The three reads have answered from a store that holds rows.
C21_Witness ==
    /\ ret.pc = "done" /\ Len(ret.result) > 0
    /\ coh.pc = "done" /\ coh.tier1_count > 0
    /\ stats.pc = "done" /\ stats.total > 0

----------------------------------------------------------------------------
(* Properties of event publication *)

\* C22: a pass whose transaction committed is never reported as failed
\* because the publication of its event failed.
C22_PublishDecoupled ==
    \A p \in Procs :
       (proc[p].op = "m2d" /\ proc[p].pc = "failed") => proc[p].at # "publish"

----------------------------------------------------------------------------
(* Properties of input validation *)

\* C23: a pass requested for an entity that does not exist is rejected with
\* an error; it never ends as a normal success.
C23_UnknownEntityRejected ==
    \A p \in Procs :
       proc[p].entity \in ReqEntities \ KnownEntities
          => proc[p].res.status \notin {"no_consolidation_needed",
                                        "consolidation_complete", "success"}

----------------------------------------------------------------------------
(* Properties of the importance evaluator *)

----------------------------------------------------------------------------
(* Properties of the judgment calls *)

\* C26: a retrieve that has called the judgment eventually returns, whether
\* or not the judgment ever answers.
C26_BoundedResponse == (ret.pc = "ranking") ~> (ret.pc = "done")

\* The records of entity e: the rows ingested into tier 1 and the rows of
\* the lower tiers that no pass made from one of them.
RecordsOf(e) ==
    {m \in ingested : m.entity = e}
    \cup {r \in tier2 \cup tier3 : r.entity = e /\ r.src = NoId}

\* C27: a read that runs beside a consolidation pass answers from one
\* committed state: retrieve never returns a tier-1 record together with the
\* successor the pass made from it, and the tier counts of a stats answer
\* never count one record in two tiers.
C27_SingleSnapshot ==
    /\ ret.pc = "done"
         => \A i \in 1..Len(ret.result) : \A j \in 1..Len(ret.result) :
               ret.result[i].tier = 1
                  => ~ \E r \in tier2 \cup tier3 :
                          r.id = ret.result[j].id /\ r.src = ret.result[i].id
    /\ stats.pc = "done"
         => stats.total <= Cardinality(RecordsOf(stats.entity))

\* C28: a retrieve with no candidates makes no judgment call; one with
\* candidates makes exactly one, and its digest holds at most PromptLimit
\* candidates, each with at most ContentLimit characters of content.
C28_CallBudget ==
    /\ ret.pc = "idle" => ret.calls = 0
    /\ (ret.pc = "done" /\ ret.all_memories = <<>>) => ret.calls = 0
    /\ (ret.pc \in {"ranking", "done"} /\ ret.all_memories # <<>>)
         => /\ ret.calls = 1
            /\ Len(ret.digest) <= PromptLimit
            /\ \A i \in 1..Len(ret.digest) : ret.digest[i] <= ContentLimit

\* A retrieve has returned after ranking more candidates than the digest
\* takes, one of those in the digest with content longer than the limit.
C28_Witness ==
    /\ ret.pc = "done"
    /\ ret.calls = 1
    /\ Len(ret.all_memories) > PromptLimit
    /\ Len(ret.digest) = PromptLimit
    /\ \E i \in 1..PromptLimit :
          /\ ContentLen(ret.all_memories[i]) > ContentLimit
          /\ ret.digest[i] = ContentLimit

----------------------------------------------------------------------------
(* Frame and isolation of the consolidation passes *)

\* The step is the commit of consolidation pass p.
MCCommitStep(p) ==
    proc[p].op = "mc" /\ proc[p].pc = "commit" /\ proc'[p].pc = "done"

\* C29: a consolidation pass takes as cutoff now - days; its commit removes
\* from tier 1 only rows of its entity created strictly before the cutoff,
\* adds no tier-1 row, and leaves every row tiers 2 and 3 already hold; no
\* other step of a pass changes a tier.
C29_SelectionFrame ==
    [][/\ \A p \in Procs :
            /\ (Resting(p) /\ proc'[p].op = "mc")
                 => \E d \in DaysInputs : proc'[p].cutoff = now - d
            /\ MCCommitStep(p)
                 => /\ \A m \in tier1 :
                          (m.entity # proc[p].entity
                             \/ m.created >= proc[p].cutoff) => m \in tier1'
                    /\ tier1' \subseteq tier1
                    /\ tier2 \subseteq tier2'
                    /\ tier3 \subseteq tier3'
       /\ (\A p \in Procs : ~ MCCommitStep(p))
            => UNCHANGED <<tier1, tier2, tier3>>]_vars

\* A pass has committed, and tier 1 still holds a row of its entity created
\* exactly at its cutoff.
C29_Witness ==
    \E p \in Procs :
       /\ proc[p].op = "mc" /\ proc[p].pc = "done"
       /\ proc[p].res.processed > 0
       /\ \E m \in tier1 :
             m.entity = proc[p].entity /\ m.created = proc[p].cutoff

\* A consolidation pass of p has committed.
MCDone(p) ==
    /\ proc[p].op = "mc" /\ proc[p].pc = "done"
    /\ proc[p].res.status = "consolidation_complete"

\* The rows a pass for entity e with the given cutoff takes from the
\* ingested rows.
TakenBy(e, cutoff) == {m \in ingested : m.entity = e /\ m.created < cutoff}

\* C30: a step of a pass for one entity changes no row and no conversation,
\* summary or embedding of another entity; and when passes for two different
\* entities have both committed, however their steps interleaved, the tiers
\* hold exactly what each pass alone makes of its own entity's rows.
C30_EntityIsolation ==
    /\ [][\A p \in Procs :
             proc'[p] # proc[p]
                => LET e == proc'[p].entity
                       Others(S) == {r \in S : r.entity # e}
                   IN /\ Others(tier1') = Others(tier1)
                      /\ Others(tier2') = Others(tier2)
                      /\ Others(tier3') = Others(tier3)
                      /\ Others(convs') = Others(convs)
                      /\ Others(summaries') = Others(summaries)]_vars
    /\ [](\A p \in Procs : \A q \in Procs :
             (MCDone(p) /\ MCDone(q) /\ proc[p].entity # proc[q].entity)
                => LET taken == TakenBy(proc[p].entity, proc[p].cutoff)
                                \cup TakenBy(proc[q].entity, proc[q].cutoff)
                   IN /\ tier1 = ingested \ taken
                      /\ {r.src : r \in tier2} =
                            {m.id : m \in {x \in taken :
                               Route(EvaluateImportance(x)) = "tier2"}}
                      /\ {r.src : r \in tier3} =
                            {m.id : m \in {x \in taken :
                               Route(EvaluateImportance(x)) = "tier3"}}
                      /\ Cardinality(tier2) + Cardinality(tier3)
                            = Cardinality({x \in taken :
                                 Route(EvaluateImportance(x)) # "discard"}))

\* Passes for two different entities have both committed, each having
\* moved rows.
C30_Witness ==
    \E p \in Procs : \E q \in Procs :
       /\ MCDone(p) /\ MCDone(q)
       /\ proc[p].entity # proc[q].entity
       /\ proc[p].res.processed > 0 /\ proc[q].res.processed > 0

----------------------------------------------------------------------------
(* Properties of the successor rows *)

\* C31: every row a commit of a consolidation pass adds to tier 2 or tier 3
\* has the entity, type, payload and created time of a tier-1 row that the
\* same commit deletes, and the rows added plus the rows discarded are as
\* many as the tier-1 rows deleted.
C31_SuccessorFidelity ==
    [][\A p \in Procs :
         MCCommitStep(p)
            => LET new2 == tier2' \ tier2
                   new3 == tier3' \ tier3
                   gone == tier1 \ tier1'
               IN /\ \A d \in new2 \cup new3 :
                        \E m \in gone :
                           /\ m.id = d.src
                           /\ m.entity = d.entity /\ m.type = d.type
                           /\ m.kw = d.kw /\ m.created = d.created
                  /\ Cardinality(new2) + Cardinality(new3) + proc[p].archived
                        = Cardinality(gone)]_vars

----------------------------------------------------------------------------
(* Properties of the evaluator's values *)

\* The iteration of pass p has evaluated its row and queued no successor
\* for it.
Discards(p) ==
    ~ \E d \in proc[p].adds2 \cup proc[p].adds3 : d.src = proc[p].cur.id

\* C32, as claimed: the evaluator returns only 0.4, 0.5, 0.6, 0.7, 0.8 or
\* 1.0, and a pass discards a row only when it is an event without keyword.
C32_ValueRangeAsClaimed ==
    \A p \in Procs :
       (proc[p].op = "mc" /\ proc[p].pc = "del")
          => /\ proc[p].importance \in {40, 50, 60, 70, 80, 100}
             /\ Discards(p)
                   <=> (proc[p].cur.type = "event" /\ ~proc[p].cur.kw)

\* C32, amended: the evaluator returns only 0.4, 0.5, 0.6,
\* 0.6000000000000001 (an event with a keyword), 0.7, 0.8 or 1.0, never
\* less than 0.4, and a pass discards a row exactly when it is an event
\* without keyword.
C32_ValueRange ==
    \A p \in Procs :
       (proc[p].op = "mc" /\ proc[p].pc = "del")
          => /\ proc[p].importance \in {40, 50, 60, 61, 70, 80, 100}
             /\ proc[p].importance >= 40
             /\ Discards(p)
                   <=> (proc[p].cur.type = "event" /\ ~proc[p].cur.kw)

\* A pass has evaluated an event with a keyword, and another pass has
\* discarded an event without one.
C32_Witness ==
    \E p \in Procs : \E q \in Procs :
       /\ proc[p].op = "mc" /\ proc[p].pc = "del"
       /\ proc[p].cur.type = "event" /\ proc[p].cur.kw
       /\ proc[p].importance = 61 /\ ~Discards(p)
       /\ proc[q].op = "mc" /\ proc[q].pc = "del"
       /\ proc[q].cur.type = "event" /\ ~proc[q].cur.kw
       /\ proc[q].importance = 40 /\ Discards(q)

----------------------------------------------------------------------------
(* Properties of the ranked list *)

\* C33: whatever the judgment answers, no candidate appears twice in the
\* list retrieve returns.
C33_NoDuplicates ==
    ret.pc = "done"
    => \A i \in 1..Len(ret.result) : \A j \in 1..Len(ret.result) :
          (ret.result[i].id = ret.result[j].id
             /\ ret.result[i].tier = ret.result[j].tier) => i = j

\* The ranking of the answer was used: a JSON object, and no index that
\* raises.
RankingUsed ==
    /\ ret.resp.kind = "object"
    /\ \A i \in 1..Len(ret.resp.indices) :
          ret.resp.indices[i] >= 0 - Len(ret.all_memories)

\* C34: when the judgment call succeeds, every record retrieve returns is
\* one of the candidates of the digest sent to the judgment.
C34_DrawnFromDigest ==
    (ret.pc = "done" /\ RankingUsed)
    => \A i \in 1..Len(ret.result) :
          \E k \in 1..Len(ret.digest) :
             /\ ret.all_memories[k].id = ret.result[i].id
             /\ ret.all_memories[k].tier = ret.result[i].tier

----------------------------------------------------------------------------
(* Properties of the conversation summaries *)

\* C35: in every committed state an archived conversation carries the
\* summary_id of a stored summary of its entity whose embedding is stored
\* too, and the commit that archives a conversation is the commit that
\* writes that summary and that embedding.
C35_Traceability ==
    /\ [](\A c \in convs :
             c.archived
                => \E s \in summaries :
                      /\ s.id = c.summary_id
                      /\ s.entity = c.entity
                      /\ \E e \in embeddings : e.source_id = s.id)
    /\ [][\A c \in convs' :
             (c.archived /\ c \notin convs)
                => /\ \E s \in summaries' \ summaries : s.id = c.summary_id
                   /\ \E e \in embeddings' \ embeddings :
                         e.source_id = c.summary_id]_vars

\* A pass has returned success and a conversation is archived under one of
\* its summaries.
C35_Witness ==
    \E p \in Procs :
       /\ proc[p].op = "m2d" /\ proc[p].pc = "done"
       /\ proc[p].res.status = "success" /\ proc[p].res.processed > 0
       /\ \E c \in convs : c.archived /\ c.summary_id[1] = p

\* C36: an archived conversation was part of the input from which the
\* summary it points to was generated.
C36_SummaryCoverage ==
    \A c \in convs :
       c.archived
          => \E s \in summaries : s.id = c.summary_id /\ c.id \in s.input

\* The year-week keys of a set of conversations.
WeekKeys(S) == {WeekKey(c.created) : c \in S}

\* C37: the groups of a pass partition its selected conversations by
\* year-week key; once all groups are done the pass has counted every
\* selected conversation and made one summary per week key, and the result
\* it returns says so.
C37_WeeklyPartition ==
    /\ [](\A p \in Procs :
             (proc[p].op = "m2d"
                /\ proc[p].pc \in {"group", "m2dcommit", "publish"})
             => LET G == GroupByPeriod(proc[p].sel)
                IN /\ UNION {G[k] : k \in DOMAIN G} = proc[p].sel
                   /\ \A k \in DOMAIN G : \A j \in DOMAIN G :
                         k # j => G[k] \cap G[j] = {}
                   /\ \A k \in DOMAIN G : \A c \in G[k] :
                         WeekKey(c.created) = k
                   /\ proc[p].pc \in {"m2dcommit", "publish"}
                        => /\ proc[p].count = Cardinality(proc[p].sel)
                           /\ Cardinality(proc[p].sums)
                                 = Cardinality(WeekKeys(proc[p].sel))
                           /\ proc[p].ngroups
                                 = Cardinality(WeekKeys(proc[p].sel)))
    /\ [][\A p \in Procs :
             (proc[p].pc = "publish" /\ proc'[p].pc = "done")
                => /\ proc'[p].res.status = "success"
                   /\ proc'[p].res.processed = Cardinality(proc[p].sel)
                   /\ proc'[p].res.summaries
                         = Cardinality(WeekKeys(proc[p].sel))]_vars

\* A pass has returned success for two conversations of one week: one
\* summary.
C37_Witness ==
    \E p \in Procs :
       /\ proc[p].op = "m2d" /\ proc[p].pc = "done"
       /\ proc[p].res.status = "success"
       /\ proc[p].res.processed = 2 /\ proc[p].res.summaries = 1

====
